---- MODULE Spec2Model ----
(***************************************************************************)
(* The content-addressed object layer of go-meta: Block, Object, Store and *)
(* Graph (package meta), as a state machine over a backing datastore.      *)
(***************************************************************************)
EXTENDS Integers, Sequences, FiniteSets, TLC

VARIABLES
    ds,       \* the backing datastore.Datastore: key -> bytes it returns
    putLog,   \* history: the Objects whose Store.Put returned nil
    pending,  \* per caller, the backing Put a Store.Put call is about to issue
    last,     \* the operation that ran last, with its arguments and result
    enc,      \* the run of EncodeXML in progress, node by node
    idx       \* the run of Indexer.Index in progress

vars == <<ds, putLog, pending, last, enc, idx>>

----------------------------------------------------------------------------
(* Bounds of the model.                                                    *)

\* longest path handed to Graph.Get
MaxPath == 3
\* most entries the backing collaborator holds corrupted at one time
MaxCorrupt == 1
\* most calls of EncodeXML in one behaviour
MaxEncodes == 2
\* most addresses sent on the stream handed to Indexer.Index
MaxStream == 2
\* most addresses the stream holds ready to be received
ChanCap == 1

----------------------------------------------------------------------------
(* Return values: Go's (value, error) pairs.                               *)

RetOk(v) == [ok |-> TRUE, val |-> v]
RetErr(e) == [ok |-> FALSE, err |-> e]

(* The errors of package meta and of the libraries it calls.               *)
ErrInvalidCidVersion(v) == [kind |-> "ErrInvalidCidVersion", Version |-> v]
ErrCidMismatch(e, a) == [kind |-> "ErrCidMismatch", Expected |-> e, Actual |-> a]
ErrInvalidCodec(c) == [kind |-> "ErrInvalidCodec", Codec |-> c]
ErrInvalidType(t) == [kind |-> "ErrInvalidType", Type |-> t]
ErrPathNotFound(p) == [kind |-> "ErrPathNotFound", Path |-> p]
ErrExpectedLink(v) == [kind |-> "ExpectedLink", got |-> v.k]
\* multihash.Sum on a hash function it cannot compute
ErrSumNotSupported == [kind |-> "mh.ErrSumNotSupported"]
\* cbornode.DecodeBlock on bytes that are not CBOR
ErrDecode == [kind |-> "cbor.DecodeError"]
\* cbornode.ErrNoSuchLink: the sentinel Node.Resolve returns for a missing key
ErrNoSuchLink == [kind |-> "cbornode.ErrNoSuchLink"]
\* Node.Resolve walking into a value that is neither a map nor a link
ErrNoLinks == [kind |-> "cbornode.NoLinks"]
\* datastore.ErrNotFound: the backing Get on a key it does not hold
ErrNotFound == [kind |-> "datastore.ErrNotFound"]
\* any other failure of the backing collaborator
ErrIO == [kind |-> "datastore.IOError"]

----------------------------------------------------------------------------
(* Decoded values (the interface{} tree cbornode decodes) and raw bytes.   *)

StrV(s) == [k |-> "str", s |-> s]
IntV(n) == [k |-> "int", n |-> n]
CidV(c) == [k |-> "cid", cid |-> c]
MapV(f) == [k |-> "map", f |-> f]
\* the *format.Link Node.Resolve hands back for a *cid.Cid in the tree
FormatLink(c) == [k |-> "format.Link", Cid |-> c]

\* raw bytes: the CBOR encoding of a value, or bytes that are not CBOR
Cbor(v) == [enc |-> "cbor", v |-> v]
Junk == [enc |-> "junk"]

----------------------------------------------------------------------------
(* go-cid: a CID is version, codec and multihash (function id + digest).   *)

cidV1 == 1
DagCBOR == "dag-cbor"
DagProtobuf == "dag-pb"
Codecs == {DagCBOR, DagProtobuf}
SHA2_256 == "sha2-256"
\* an application-specific multihash code: valid in a CID, not computable
AppHash == "app-0x05"
MhTypes == {SHA2_256, AppHash}
SumSupported == {SHA2_256}

\* mh.Sum: the digest of data under hash function fn (collision free)
MhSum(fn, data) == [fn |-> fn, of |-> data]

NewCidV0(h) == [version |-> 0, codec |-> DagProtobuf, hash |-> h]
NewCidV1(c, h) == [version |-> 1, codec |-> c, hash |-> h]

\* cid.Prefix(): everything of the CID but the digest
Prefix(c) == [Version |-> c.version, Codec |-> c.codec, MhType |-> c.hash.fn]

\* Prefix.Sum(data): the CID of data under the prefix
PrefixSum(p, data) ==
    IF p.MhType \notin SumSupported THEN RetErr(ErrSumNotSupported)
    ELSE IF p.Version = 0 THEN RetOk(NewCidV0(MhSum(p.MhType, data)))
    ELSE IF p.Version = 1 THEN RetOk(NewCidV1(p.Codec, MhSum(p.MhType, data)))
    ELSE RetErr([kind |-> "cid.InvalidVersion"])

CidEquals(a, b) ==
    /\ a.version = b.version
    /\ a.codec = b.codec
    /\ a.hash = b.hash

\* cid.String(): base58 of the multihash for v0, multibase of
\* <version, codec, multihash> for v1
CidString(c) ==
    IF c.version = 0
    THEN [base |-> "Qm", ver |-> 0, codec |-> "", mh |-> c.hash]
    ELSE [base |-> "z", ver |-> c.version, codec |-> c.codec, mh |-> c.hash]

----------------------------------------------------------------------------
(* Block                                                                   *)

\* blocks.NewBlockWithCid: builds the BasicBlock (its own hash check only
\* runs in debug builds and repeats the one NewBlock has made)
NewBlockWithCid(data, c) == RetOk([data |-> data, cid |-> c])

NewBlock_NoVersionGate(c, data) ==
    LET prefix == Prefix(c)
        sum == PrefixSum(prefix, data)
    IN  IF ~sum.ok THEN RetErr(sum.err)
        ELSE IF ~CidEquals(c, sum.val) THEN RetErr(ErrCidMismatch(sum.val, c))
        ELSE RetOk([cid |-> c, data |-> data, prefix |-> prefix])

NewBlock_NoHashCheck(c, data) ==
    LET prefix == Prefix(c)
    IN  IF prefix.Version # cidV1
        THEN RetErr(ErrInvalidCidVersion(prefix.Version))
        ELSE RetOk([cid |-> c, data |-> data, prefix |-> prefix])

NewBlock(c, data) ==
    LET prefix == Prefix(c)
    IN  IF prefix.Version # cidV1
        THEN RetErr(ErrInvalidCidVersion(prefix.Version))
        ELSE LET sum == PrefixSum(prefix, data)
             IN  IF ~sum.ok THEN RetErr(sum.err)
                 ELSE IF ~CidEquals(c, sum.val)
                 THEN RetErr(ErrCidMismatch(sum.val, c))
                 ELSE LET b == NewBlockWithCid(data, c)
                      IN  IF ~b.ok THEN RetErr(b.err)
                          ELSE RetOk([cid |-> b.val.cid, data |-> b.val.data,
                                      prefix |-> prefix])

BlockCodec(b) == b.prefix.Codec

----------------------------------------------------------------------------
(* cbornode.Node                                                           *)

\* cbornode.DecodeBlock: the decoded tree, or an error on malformed bytes
DecodeBlock(block) ==
    IF block.data.enc = "cbor" THEN RetOk(block.data.v) ELSE RetErr(ErrDecode)

\* convertToJSONIsh: maps stay maps, a CID becomes the map {"/": its string},
\* scalars are kept
RECURSIVE ConvertToJSONIsh(_)
ConvertToJSONIsh(v) ==
    IF v.k = "map"
    THEN MapV([n \in DOMAIN v.f |-> ConvertToJSONIsh(v.f[n])])
    ELSE IF v.k = "cid"
    THEN MapV([n \in {"/"} |-> StrV(CidString(v.cid))])
    ELSE v

\* Node.Resolve(path) from the value cur, at the i-th segment: walks maps
\* key by key, stops at the first CID with the segments not yet consumed,
\* fails on a missing key and on walking into a scalar
RECURSIVE ResolveFrom(_, _, _)
ResolveFrom(cur, path, i) ==
    IF i > Len(path)
    THEN IF cur.k = "cid"
         THEN [ok |-> TRUE, v |-> FormatLink(cur.cid), rest |-> <<>>]
         ELSE [ok |-> TRUE, v |-> ConvertToJSONIsh(cur), rest |-> <<>>]
    ELSE IF cur.k = "map"
    THEN IF path[i] \notin DOMAIN cur.f
         THEN [ok |-> FALSE, err |-> ErrNoSuchLink]
         ELSE ResolveFrom(cur.f[path[i]], path, i + 1)
    ELSE IF cur.k = "cid"
    THEN [ok |-> TRUE, v |-> FormatLink(cur.cid),
          rest |-> SubSeq(path, i, Len(path))]
    ELSE [ok |-> FALSE, err |-> ErrNoLinks]

NodeResolve(node, path) == ResolveFrom(node, path, 1)

----------------------------------------------------------------------------
(* Object                                                                  *)

NewObjectFromBlock(block) ==
    IF BlockCodec(block) # DagCBOR
    THEN RetErr(ErrInvalidCodec(BlockCodec(block)))
    ELSE LET dec == DecodeBlock(block)
         IN  IF ~dec.ok THEN RetErr(dec.err)
             ELSE LET t == NodeResolve(dec.val, <<"@type">>)
                  IN  IF t.ok
                      THEN IF t.v.k # "str"
                           THEN RetErr(ErrInvalidType(t.v))
                           ELSE RetOk([typ |-> t.v.s, block |-> block,
                                       node |-> dec.val])
                      ELSE RetOk([typ |-> "", block |-> block,
                                  node |-> dec.val])

\* a constructor that looks at the codec before it validates the Block
NewObject_CodecFirst(id, rawData) ==
    IF id.codec # DagCBOR THEN RetErr(ErrInvalidCodec(id.codec))
    ELSE LET b == NewBlock(id, rawData)
         IN  IF ~b.ok THEN RetErr(b.err) ELSE NewObjectFromBlock(b.val)

NewObject(id, rawData) ==
    LET b == NewBlock(id, rawData)
    IN  IF ~b.ok THEN RetErr(b.err) ELSE NewObjectFromBlock(b.val)

ObjCid(o) == o.block.cid
ObjRawData(o) == o.block.data
ObjType(o) == o.typ

----------------------------------------------------------------------------
(* Store                                                                   *)

\* a key that leaves the digest out
StoreKey_NoDigest(c) == <<"/", [base |-> "z", ver |-> c.version,
                                codec |-> c.codec,
                                mh |-> [fn |-> c.hash.fn, of |-> Junk]]>>

\* a key made of the multihash alone, as for a CIDv0
StoreKey_HashOnly(c) == <<"/", [base |-> "Qm", ver |-> 0, codec |-> "",
                                mh |-> c.hash]>>

\* a key made of the codec alone
StoreKey_CodecOnly(c) == <<"/", [base |-> "z", ver |-> 1, codec |-> c.codec,
                                 mh |-> [fn |-> SHA2_256, of |-> Junk]]>>

\* Store.key: datastore.NewKey(cid.String()), the string under the root "/"
StoreKey(c) == <<"/", CidString(c)>>

\* the backing collaborator's Get: its value, ErrNotFound, or an I/O error
BackingGet(d, key, io) ==
    IF ~io THEN RetErr(ErrIO)
    ELSE IF key \notin DOMAIN d THEN RetErr(ErrNotFound)
    ELSE RetOk(d[key])

\* a Put that leaves nothing but the entry it wrote
BackingPut_Replace(d, key, value) == [k \in {key} |-> value]

\* the backing collaborator's Put: the datastore it leaves behind
BackingPut(d, key, value) ==
    [k \in DOMAIN d \cup {key} |-> IF k = key THEN value ELSE d[k]]

\* a Get that wraps the returned bytes without NewBlock's checks
StoreGet_Trusting(d, c, io) ==
    LET data == BackingGet(d, StoreKey(c), io)
    IN  IF ~data.ok THEN RetErr(data.err)
        ELSE NewObjectFromBlock([cid |-> c, data |-> data.val,
                                 prefix |-> Prefix(c)])

StoreGet(d, c, io) ==
    LET data == BackingGet(d, StoreKey(c), io)
    IN  IF ~data.ok THEN RetErr(data.err) ELSE NewObject(c, data.val)

\* a Put that stores the decoded node in place of the raw bytes
StorePutArgs_Node(obj) == [key |-> StoreKey(ObjCid(obj)), value |-> obj.node]

\* Store.Put's two arguments to the backing Put
StorePutArgs(obj) == [key |-> StoreKey(ObjCid(obj)), value |-> ObjRawData(obj)]

----------------------------------------------------------------------------
(* Graph                                                                   *)

\* a Get that returns the resolver's missing-key error as it is
RECURSIVE GraphGetFrom_RawErr(_, _, _, _, _)
GraphGetFrom_RawErr(d, root, path, budget, reads) ==
    IF Len(path) = 1 /\ path[1] = ""
    THEN [res |-> RetOk([k |-> "object", obj |-> root]), reads |-> reads]
    ELSE LET r == NodeResolve(root.node, path)
         IN  IF ~r.ok
             THEN [res |-> RetErr(r.err),
                   reads |-> reads]
             ELSE IF Len(r.rest) = 0
             THEN [res |-> RetOk(r.v), reads |-> reads]
             ELSE IF r.v.k # "format.Link"
             THEN [res |-> RetErr(ErrExpectedLink(r.v)), reads |-> reads]
             ELSE LET obj == StoreGet(d, r.v.Cid, budget > 0)
                      seen == Append(reads, r.v.Cid)
                  IN  IF ~obj.ok
                      THEN [res |-> RetErr(obj.err), reads |-> seen]
                      ELSE GraphGetFrom_RawErr(d, obj.val, r.rest,
                                        IF budget > 0 THEN budget - 1 ELSE 0,
                                        seen)

\* a Get that reports every error of the resolver as a missing path
RECURSIVE GraphGetFrom_AllNotFound(_, _, _, _, _)
GraphGetFrom_AllNotFound(d, root, path, budget, reads) ==
    IF Len(path) = 1 /\ path[1] = ""
    THEN [res |-> RetOk([k |-> "object", obj |-> root]), reads |-> reads]
    ELSE LET r == NodeResolve(root.node, path)
         IN  IF ~r.ok
             THEN [res |-> RetErr(ErrPathNotFound(path)),
                   reads |-> reads]
             ELSE IF Len(r.rest) = 0
             THEN [res |-> RetOk(r.v), reads |-> reads]
             ELSE IF r.v.k # "format.Link"
             THEN [res |-> RetErr(ErrExpectedLink(r.v)), reads |-> reads]
             ELSE LET obj == StoreGet(d, r.v.Cid, budget > 0)
                      seen == Append(reads, r.v.Cid)
                  IN  IF ~obj.ok
                      THEN [res |-> RetErr(obj.err), reads |-> seen]
                      ELSE GraphGetFrom_AllNotFound(d, obj.val, r.rest,
                                        IF budget > 0 THEN budget - 1 ELSE 0,
                                        seen)

\* a Get that goes on in the linked Object with the whole path instead of
\* the segments the resolver left over
RECURSIVE GraphGetFrom_WholePath(_, _, _, _, _)
GraphGetFrom_WholePath(d, root, path, budget, reads) ==
    IF Len(path) = 1 /\ path[1] = ""
    THEN [res |-> RetOk([k |-> "object", obj |-> root]), reads |-> reads]
    ELSE LET r == NodeResolve(root.node, path)
         IN  IF ~r.ok
             THEN [res |-> RetErr(IF r.err = ErrNoSuchLink
                                  THEN ErrPathNotFound(path) ELSE r.err),
                   reads |-> reads]
             ELSE IF Len(r.rest) = 0
             THEN [res |-> RetOk(r.v), reads |-> reads]
             ELSE IF r.v.k # "format.Link"
             THEN [res |-> RetErr(ErrExpectedLink(r.v)), reads |-> reads]
             ELSE LET obj == StoreGet(d, r.v.Cid, budget > 0)
                      seen == Append(reads, r.v.Cid)
                  IN  IF ~obj.ok
                      THEN [res |-> RetErr(obj.err), reads |-> seen]
                      ELSE GraphGetFrom_WholePath(d, obj.val, path,
                                        IF budget > 0 THEN budget - 1 ELSE 0,
                                        seen)

\* a Get without the shortcut for the path [""]
RECURSIVE GraphGetFrom_NoSentinel(_, _, _, _, _)
GraphGetFrom_NoSentinel(d, root, path, budget, reads) ==
    LET r == NodeResolve(root.node, path)
    IN  IF ~r.ok
        THEN [res |-> RetErr(IF r.err = ErrNoSuchLink
                             THEN ErrPathNotFound(path) ELSE r.err),
              reads |-> reads]
        ELSE IF Len(r.rest) = 0
        THEN [res |-> RetOk(r.v), reads |-> reads]
        ELSE IF r.v.k # "format.Link"
        THEN [res |-> RetErr(ErrExpectedLink(r.v)), reads |-> reads]
        ELSE LET obj == StoreGet(d, r.v.Cid, budget > 0)
                 seen == Append(reads, r.v.Cid)
             IN  IF ~obj.ok
                 THEN [res |-> RetErr(obj.err), reads |-> seen]
                 ELSE GraphGetFrom_NoSentinel(d, obj.val, r.rest,
                                   IF budget > 0 THEN budget - 1 ELSE 0,
                                   seen)

\* a Get that also fetches the Object behind a Link the path ends at
RECURSIVE GraphGetFrom_FollowTerminal(_, _, _, _, _)
GraphGetFrom_FollowTerminal(d, root, path, budget, reads) ==
    IF Len(path) = 1 /\ path[1] = ""
    THEN [res |-> RetOk([k |-> "object", obj |-> root]), reads |-> reads]
    ELSE LET r == NodeResolve(root.node, path)
         IN  IF ~r.ok
             THEN [res |-> RetErr(IF r.err = ErrNoSuchLink
                                  THEN ErrPathNotFound(path) ELSE r.err),
                   reads |-> reads]
             ELSE IF Len(r.rest) = 0 /\ r.v.k # "format.Link"
             THEN [res |-> RetOk(r.v), reads |-> reads]
             ELSE IF r.v.k # "format.Link"
             THEN [res |-> RetErr(ErrExpectedLink(r.v)), reads |-> reads]
             ELSE LET obj == StoreGet(d, r.v.Cid, budget > 0)
                      seen == Append(reads, r.v.Cid)
                  IN  IF ~obj.ok
                      THEN [res |-> RetErr(obj.err), reads |-> seen]
                      ELSE IF Len(r.rest) = 0
                      THEN [res |-> RetOk([k |-> "object", obj |-> obj.val]),
                            reads |-> seen]
                      ELSE GraphGetFrom_FollowTerminal(d, obj.val, r.rest,
                                        IF budget > 0 THEN budget - 1 ELSE 0,
                                        seen)

\* Graph.Get from root along path. budget is the number of backing reads
\* that succeed before the collaborator starts failing; reads collects the
\* CIDs handed to Store.Get, in order.
RECURSIVE GraphGetFrom(_, _, _, _, _)
GraphGetFrom(d, root, path, budget, reads) ==
    IF Len(path) = 1 /\ path[1] = ""
    THEN [res |-> RetOk([k |-> "object", obj |-> root]), reads |-> reads]
    ELSE LET r == NodeResolve(root.node, path)
         IN  IF ~r.ok
             THEN [res |-> RetErr(IF r.err = ErrNoSuchLink
                                  THEN ErrPathNotFound(path) ELSE r.err),
                   reads |-> reads]
             ELSE IF Len(r.rest) = 0
             THEN [res |-> RetOk(r.v), reads |-> reads]
             ELSE IF r.v.k # "format.Link"
             THEN [res |-> RetErr(ErrExpectedLink(r.v)), reads |-> reads]
             ELSE LET obj == StoreGet(d, r.v.Cid, budget > 0)
                      seen == Append(reads, r.v.Cid)
                  IN  IF ~obj.ok
                      THEN [res |-> RetErr(obj.err), reads |-> seen]
                      ELSE GraphGetFrom(d, obj.val, r.rest,
                                        IF budget > 0 THEN budget - 1 ELSE 0,
                                        seen)

\* a Get that takes the empty path for the sentinel
GraphGet_EmptyIsRoot(d, root, path, budget) ==
    IF Len(path) = 0
    THEN [res |-> RetOk([k |-> "object", obj |-> root]), reads |-> <<>>]
    ELSE GraphGetFrom(d, root, path, budget, <<>>)

GraphGet(d, root, path, budget) == GraphGetFrom(d, root, path, budget, <<>>)

----------------------------------------------------------------------------
(* The inputs: byte strings, CIDs, Objects, paths, callers.                *)

\* the address Store.Put files data under: CIDv1, DAG-CBOR, SHA2-256
Addr(data) == NewCidV1(DagCBOR, MhSum(SHA2_256, data))

\* a leaf that also has a field whose name is the empty string
LeafB == Cbor(MapV(("B" :> StrV("x")) @@ ("" :> StrV("y"))))
BadTypeB == Cbor(MapV("@type" :> IntV(7)))
ScalarB == Cbor(StrV("x"))
TopLinkB == Cbor(CidV(Addr(LeafB)))
MidB == Cbor(MapV(("A" :> CidV(Addr(LeafB)))
                  @@ ("B" :> MapV("B" :> StrV("x")))))
RootB == Cbor(MapV(("@type" :> StrV("T")) @@ ("A" :> CidV(Addr(MidB)))
                   @@ ("B" :> CidV(Addr(ScalarB)))))

Blobs == {Junk, LeafB, BadTypeB, ScalarB, TopLinkB, MidB, RootB}

\* the bytes a corrupting collaborator puts in place of the stored ones
CorruptBytes == {Junk, LeafB, RootB}

Hashes == {MhSum(fn, b) : fn \in MhTypes, b \in Blobs}
Cids == {NewCidV0(h) : h \in Hashes}
        \cup {NewCidV1(c, h) : c \in Codecs, h \in Hashes}

\* the Objects a caller can hold: NewObject is their only constructor
Objects == {NewObject(c, b).val :
                <<c, b>> \in {x \in Cids \X Blobs : NewObject(x[1], x[2]).ok}}

PathNames == {"", "A", "B"}
Paths == UNION {[1..n -> PathNames] : n \in 0..MaxPath}

\* concurrent callers of Store.Put
Procs == {"p1", "p2"}

----------------------------------------------------------------------------
(* The state machine.                                                      *)

Idle == last.op = "idle"

\* the entries whose bytes are no longer the ones Store.Put wrote
Corrupted(d) ==
    {k \in DOMAIN d : \E o \in putLog :
        StoreKey(ObjCid(o)) = k /\ d[k] # ObjRawData(o)}

\* no EncodeXML and no Indexer.Index running
EncIdle == [st |-> "idle"]
IdxIdle == [st |-> "idle"]

Init ==
    /\ ds = [k \in {} |-> Junk]
    /\ putLog = {}
    /\ pending = [p \in Procs |-> <<>>]
    /\ last = [op |-> "idle"]
    /\ enc = EncIdle
    /\ idx = IdxIdle

\* a caller takes the result of its call
Return ==
    /\ ~Idle
    /\ last' = [op |-> "idle"]
    /\ UNCHANGED <<ds, putLog, pending>>
    /\ UNCHANGED <<enc, idx>>

NewBlockOp(c, data) ==
    /\ Idle
    /\ last' = [op |-> "NewBlock", cid |-> c, data |-> data,
                res |-> NewBlock(c, data)]
    /\ UNCHANGED <<ds, putLog, pending>>
    /\ UNCHANGED <<enc, idx>>

NewObjectOp(c, data) ==
    /\ Idle
    /\ last' = [op |-> "NewObject", cid |-> c, data |-> data,
                res |-> NewObject(c, data)]
    /\ UNCHANGED <<ds, putLog, pending>>
    /\ UNCHANGED <<enc, idx>>

\* Store.Get(c) on a Store whose backing collaborator returns data under
\* c's key, whoever wrote it
StoreGetOver(c, data) ==
    /\ Idle
    /\ last' = [op |-> "GetOver", cid |-> c, data |-> data,
                res |-> StoreGet(BackingPut(ds, StoreKey(c), data), c, TRUE)]
    /\ UNCHANGED <<ds, putLog, pending>>
    /\ UNCHANGED <<enc, idx>>

\* Store.Get(c); io: whether the backing collaborator answers the read
StoreGetOp(c, io) ==
    /\ Idle
    /\ last' = [op |-> "Get", cid |-> c, io |-> io,
                res |-> StoreGet(ds, c, io)]
    /\ UNCHANGED <<ds, putLog, pending>>
    /\ UNCHANGED <<enc, idx>>

\* Store.Put(obj) as one call; io: whether the backing Put succeeds
StorePutOp(obj, io) ==
    /\ Idle
    /\ LET a == StorePutArgs(obj)
       IN  IF io
           THEN /\ ds' = BackingPut(ds, a.key, a.value)
                /\ putLog' = putLog \cup {obj}
                /\ last' = [op |-> "Put", obj |-> obj, io |-> io,
                            present |-> a.key \in DOMAIN ds,
                            res |-> RetOk("nil")]
           ELSE /\ UNCHANGED <<ds, putLog>>
                /\ last' = [op |-> "Put", obj |-> obj, io |-> io,
                            present |-> a.key \in DOMAIN ds,
                            res |-> RetErr(ErrIO)]
    /\ UNCHANGED pending
    /\ UNCHANGED <<enc, idx>>

\* Store.Put(obj) by caller p, up to its call of the backing Put
PutBegin(p, obj) ==
    /\ Idle
    /\ pending[p] = <<>>
    /\ pending' = [pending EXCEPT ![p] = <<[obj |-> obj,
                                           args |-> StorePutArgs(obj)]>>]
    /\ UNCHANGED <<ds, putLog, last>>
    /\ UNCHANGED <<enc, idx>>

\* the backing Put of caller p takes effect and Store.Put returns nil
PutCommit(p) ==
    /\ Idle
    /\ pending[p] # <<>>
    /\ LET c == pending[p][1]
       IN  /\ ds' = BackingPut(ds, c.args.key, c.args.value)
           /\ putLog' = putLog \cup {c.obj}
           /\ last' = [op |-> "Put", obj |-> c.obj, io |-> TRUE,
                       present |-> c.args.key \in DOMAIN ds,
                       res |-> RetOk("nil")]
    /\ pending' = [pending EXCEPT ![p] = <<>>]
    /\ UNCHANGED <<enc, idx>>

\* Graph.Get(path...) on NewGraph(store, root)
GraphGetOp(root, path, budget) ==
    /\ Idle
    /\ LET g == GraphGet(ds, root, path, budget)
       IN  last' = [op |-> "GraphGet", root |-> root, path |-> path,
                    budget |-> budget, res |-> g.res, reads |-> g.reads]
    /\ UNCHANGED <<ds, putLog, pending>>
    /\ UNCHANGED <<enc, idx>>

\* the backing collaborator replaces the bytes it holds under a key
Corrupt(key, b) ==
    /\ Idle
    /\ key \in DOMAIN ds
    /\ b # ds[key]
    /\ ds' = [ds EXCEPT ![key] = b]
    /\ Cardinality(Corrupted(ds')) <= MaxCorrupt
    /\ UNCHANGED <<putLog, pending, last>>
    /\ UNCHANGED <<enc, idx>>

\* Block and Object construction and a single read, over every input
NextBlock ==
    \/ \E c \in Cids, b \in Blobs : NewBlockOp(c, b)
    \/ \E c \in Cids, b \in Blobs : NewObjectOp(c, b)
    \/ \E c \in Cids, b \in Blobs : StoreGetOver(c, b)
    \/ Return

SpecBlock == Init /\ [][NextBlock]_vars

\* the Store over a backing collaborator that answers and keeps its bytes,
\* with concurrent callers of Put
NextStore ==
    \/ \E p \in Procs, o \in Objects : PutBegin(p, o)
    \/ \E p \in Procs : PutCommit(p)
    \/ \E c \in Cids : StoreGetOp(c, TRUE)
    \/ Return

SpecStore == Init /\ [][NextStore]_vars

\* Store and Graph over a backing collaborator that may fail a call and
\* may corrupt what it holds
Next ==
    \/ \E o \in Objects, io \in BOOLEAN : StorePutOp(o, io)
    \/ \E c \in Cids, io \in BOOLEAN : StoreGetOp(c, io)
    \/ \E root \in Objects, path \in Paths, budget \in 0..(MaxPath - 1) :
            GraphGetOp(root, path, budget)
    \/ \E key \in DOMAIN ds, b \in CorruptBytes : Corrupt(key, b)
    \/ Return

Spec == Init /\ [][Next]_vars

----------------------------------------------------------------------------
(* The error predicate callers branch on.                                  *)

IsPathNotFound(err) == err.kind = "ErrPathNotFound"

----------------------------------------------------------------------------
(* Reference notions the properties are stated with.                       *)

\* the bytes data are the ones address a was derived from
DerivesTo(data, a) ==
    LET sum == PrefixSum(Prefix(a), data) IN sum.ok /\ sum.val = a

\* the digest of address a is the digest of data
DigestOf(data, a) == a.hash = MhSum(a.hash.fn, data)

\* the key an address is stored under, written out
KeyString(a) == <<"/", CidString(a)>>

\* the datastore holding exactly the bytes of the Objects in log
ExpectedStore(log) ==
    [k \in {KeyString(ObjCid(o)) : o \in log} |->
        ObjRawData(CHOOSE o \in log : KeyString(ObjCid(o)) = k)]

\* How a path ends when the linked Objects are read as one tree: from value
\* v, at the i-th segment; entered says that v is the root of an Object
\* just entered; sentinel says whether [""] stands for that Object.
\*   "value"    the path is used up
\*   "sentinel" the rest of the path is [""] at the root of an Object
\*   "missing"  the next segment is not a key of the map it is looked up in
\*   "scalar"   segments remain at a value that is neither map nor link
\*   "fetch"    the Object behind a link could not be read from the Store
RECURSIVE Walk(_, _, _, _, _, _, _)
Walk(d, v, path, i, budget, entered, sentinel) ==
    IF sentinel /\ entered /\ i = Len(path) /\ path[i] = "" THEN "sentinel"
    ELSE IF i > Len(path) THEN "value"
    ELSE IF v.k = "map"
    THEN IF path[i] \notin DOMAIN v.f THEN "missing"
         ELSE Walk(d, v.f[path[i]], path, i + 1, budget, FALSE, sentinel)
    ELSE IF v.k = "cid"
    THEN LET obj == StoreGet(d, v.cid, budget > 0)
         IN  IF ~obj.ok THEN "fetch"
             ELSE Walk(d, obj.val.node, path, i,
                       IF budget > 0 THEN budget - 1 ELSE 0, TRUE, sentinel)
    ELSE "scalar"

\* the way the path of the last Graph.Get ends
LastWalk(sentinel) ==
    Walk(ds, last.root.node, last.path, 1, last.budget, TRUE, sentinel)

----------------------------------------------------------------------------
(* Properties.                                                             *)

\* C1, as claimed: for every b and every a # deriveAddress(b, a's prefix),
\* NewBlock(a, b) fails with ErrCidMismatch, whatever a's other fields are.
C1_AsClaimed ==
    (last.op = "NewBlock" /\ ~DerivesTo(last.data, last.cid))
        => (~last.res.ok /\ last.res.err.kind = "ErrCidMismatch")

\* C1, amended: for every b and every a of version 1 whose hash function
\* the multihash library computes, if a's digest is not the digest of b
\* then NewBlock(a, b) returns no Block and fails with ErrCidMismatch
\* naming the derived address as Expected and a as Actual.
C1_TamperDetection ==
    (/\ last.op = "NewBlock"
     /\ last.cid.version = 1
     /\ last.cid.hash.fn \in SumSupported
     /\ ~DigestOf(last.data, last.cid))
        => /\ ~last.res.ok
           /\ last.res.err =
                ErrCidMismatch(NewCidV1(last.cid.codec,
                                        MhSum(last.cid.hash.fn, last.data)),
                               last.cid)

\* C1 witness: a version-1 address of another codec, derived from other
\* bytes, was rejected as a mismatch.
C1_Witness ==
    /\ last.op = "NewBlock"
    /\ last.cid = NewCidV1(DagProtobuf, MhSum(SHA2_256, LeafB))
    /\ last.data = RootB
    /\ ~last.res.ok
    /\ last.res.err.kind = "ErrCidMismatch"

\* C2: for every address whose version is not 1 and every byte sequence,
\* NewBlock, NewObject and Store.Get (on the bytes the backing collaborator
\* returns) fail with ErrInvalidCidVersion, digest matching or not.
C2_VersionGate ==
    (/\ last.op \in {"NewBlock", "NewObject", "GetOver"}
     /\ last.cid.version # 1)
        => /\ ~last.res.ok
           /\ last.res.err = ErrInvalidCidVersion(last.cid.version)

\* C2 witness: Store.Get was refused a version-0 address although the
\* bytes returned have exactly its digest.
C2_Witness ==
    /\ last.op = "GetOver"
    /\ last.cid.version = 0
    /\ DigestOf(last.data, last.cid)
    /\ last.cid.hash.fn \in SumSupported
    /\ ~last.res.ok
    /\ last.res.err.kind = "ErrInvalidCidVersion"

\* C3: a Get of the address of an Object that was Put succeeds and returns
\* an Object with that Object's raw bytes and declared type, whatever other
\* Puts have completed or are in flight.
C3_RoundTrip ==
    (last.op = "Get" /\ last.io)
        => \A o \in putLog :
              ObjCid(o) = last.cid
                 => /\ last.res.ok
                    /\ ObjRawData(last.res.val) = ObjRawData(o)
                    /\ ObjType(last.res.val) = ObjType(o)

\* C3 witness: a typed Object was read back after other Objects were Put
\* and while another Put is in flight.
C3_Witness ==
    /\ last.op = "Get"
    /\ last.res.ok
    /\ ObjType(last.res.val) = "T"
    /\ ObjRawData(last.res.val) = RootB
    /\ Cardinality(putLog) >= 3
    /\ \E p \in Procs : pending[p] # <<>>

\* C4, as claimed: whenever the bytes returned under the key of a do not
\* derive to a, Store.Get(a) fails with ErrCidMismatch.
C4_AsClaimed ==
    (last.op = "GetOver" /\ ~DerivesTo(last.data, last.cid))
        => (~last.res.ok /\ last.res.err.kind = "ErrCidMismatch")

\* C4, amended: whenever the bytes returned under the key of a do not have
\* a's digest, Store.Get(a) returns no Object; the error is ErrCidMismatch
\* when a has version 1 and a hash function the multihash library computes,
\* and ErrInvalidCidVersion when a has another version. Store.Get returns
\* an Object only when the returned bytes hash to the requested address.
C4_CorruptionCaught ==
    last.op = "GetOver"
        => /\ ~DigestOf(last.data, last.cid)
              => /\ ~last.res.ok
                 /\ (last.cid.version = 1 /\ last.cid.hash.fn \in SumSupported)
                       => last.res.err.kind = "ErrCidMismatch"
                 /\ last.cid.version # 1
                       => last.res.err.kind = "ErrInvalidCidVersion"
           /\ last.res.ok
              => /\ DigestOf(last.data, last.cid)
                 /\ ObjCid(last.res.val) = last.cid
                 /\ ObjRawData(last.res.val) = last.data

\* C4 witness: well-formed bytes of another Object came back under the
\* address of a stored Object and were rejected as a mismatch.
C4_Witness ==
    /\ last.op = "GetOver"
    /\ last.cid = Addr(RootB)
    /\ last.data = LeafB
    /\ ~last.res.ok
    /\ last.res.err.kind = "ErrCidMismatch"

\* C5: every entry of the backing store is keyed by the string form of the
\* address derived from its value, and there is exactly one entry per
\* Object that was Put.
C5_StoreIntegrity ==
    /\ \A k \in DOMAIN ds : k = KeyString(Addr(ds[k]))
    /\ DOMAIN ds = {KeyString(ObjCid(o)) : o \in putLog}
    /\ Cardinality(DOMAIN ds) = Cardinality(putLog)

\* C5 witness: three Objects have been Put, the last one just now.
C5_Witness ==
    /\ last.op = "Put"
    /\ last.res.ok
    /\ Cardinality(DOMAIN ds) = 3

\* C6: no step removes or changes an entry of the store, and a Put of an
\* Object whose address is already present leaves the store unchanged.
C6_WriteOnce ==
    [][/\ \A k \in DOMAIN ds : k \in DOMAIN ds' /\ ds'[k] = ds[k]
       /\ (/\ last'.op = "Put"
           /\ last.op # "Put"
           /\ KeyString(ObjCid(last'.obj)) \in DOMAIN ds)
             => ds' = ds]_vars

\* C6 witness: an Object whose address was already present was Put again
\* next to another entry.
C6_Witness ==
    /\ last.op = "Put"
    /\ last.present
    /\ last.res.ok
    /\ Cardinality(DOMAIN ds) >= 2

\* C7: at every point of every interleaving of the callers' Puts the store
\* holds exactly one entry per distinct address whose Put has completed,
\* whatever the order, so all interleavings end in the same store; and
\* every value hashes to its key.
C7_PutsCommute ==
    /\ ds = ExpectedStore(putLog)
    /\ \A k \in DOMAIN ds : k = KeyString(Addr(ds[k]))

\* C7 witness: one caller's Put of an address completed while the other
\* caller's Put of the same address is in flight, with other entries stored.
C7_Witness ==
    /\ last.op = "Put"
    /\ \E p \in Procs : pending[p] # <<>> /\ pending[p][1].obj = last.obj
    /\ Cardinality(DOMAIN ds) >= 2

\* C8, as claimed: Graph.Get with no segments returns the root Object
\* itself, without any Store access.
C8_AsClaimed ==
    (last.op = "GraphGet" /\ last.path = <<>>)
        => /\ last.res.ok
           /\ last.res.val = [k |-> "object", obj |-> last.root]
           /\ last.reads = <<>>

\* C8, amended: Graph.Get with no segments succeeds without any Store
\* access and returns the root's decoded field tree in its JSON-like form,
\* not the root Object; only the path [""] returns the Object.
C8_EmptyPath ==
    (last.op = "GraphGet" /\ last.path = <<>>)
        => /\ last.res.ok
           /\ last.res.val = ConvertToJSONIsh(last.root.node)
           /\ last.res.val.k # "object"
           /\ last.reads = <<>>

\* C8 witness: the empty path was resolved on a root that holds links and
\* gave back a map, with the linked Objects absent from the Store.
C8_Witness ==
    /\ last.op = "GraphGet"
    /\ last.path = <<>>
    /\ ObjRawData(last.root) = RootB
    /\ last.res.ok
    /\ last.res.val.k = "map"
    /\ DOMAIN ds = {}

\* C9, as claimed: Graph.Get fails with an error IsPathNotFound recognises
\* whenever the next segment is not a field of the Object being resolved,
\* and with no such error otherwise.
C9_AsClaimed ==
    last.op = "GraphGet"
        => ((~last.res.ok /\ IsPathNotFound(last.res.err))
               <=> LastWalk(FALSE) = "missing")

\* C9, amended: Graph.Get fails with an error IsPathNotFound recognises
\* exactly when the next segment is not a key of the map it is looked up in
\* (in the root or in an Object reached over links), unless the path left
\* at the root of that Object is the single segment "", which returns the
\* Object; every other failure (Store miss, backing error, corrupted block,
\* walking into a scalar) is not recognised as PathNotFound.
C9_MissingField ==
    last.op = "GraphGet"
        => ((~last.res.ok /\ IsPathNotFound(last.res.err))
               <=> LastWalk(TRUE) = "missing")

\* C9 witness: after two Objects were fetched over links, the last segment
\* named a field the Object reached does not have.
C9_Witness ==
    /\ last.op = "GraphGet"
    /\ Len(last.reads) = 2
    /\ last.path[3] = "A"
    /\ ~last.res.ok
    /\ IsPathNotFound(last.res.err)

\* C10: when segments remain at a value that is neither a map
\* nor a link, Graph.Get fails with the ExpectedLink error.
C10_AsClaimed ==
    (last.op = "GraphGet" /\ LastWalk(TRUE) = "scalar")
        => (~last.res.ok /\ last.res.err.kind = "ExpectedLink")

\* C10, what Graph.Get does instead: when segments remain at a value that
\* is neither a map nor a link, it returns no value and fails with the
\* resolver's own error for walking into a value without links, passed on
\* unchanged by line 119; the ExpectedLink branch of lines 125-128 is never
\* taken, and the error is neither ExpectedLink nor PathNotFound.
C10_ScalarWithRest ==
    (last.op = "GraphGet" /\ LastWalk(TRUE) = "scalar")
        => /\ ~last.res.ok
           /\ last.res.err = ErrNoLinks
           /\ last.res.err.kind \notin {"ExpectedLink", "ErrPathNotFound"}

\* C10 witness: a link was followed and the path went on below a string
\* of the Object reached.
C10_Witness ==
    /\ last.op = "GraphGet"
    /\ Len(last.reads) = 1
    /\ last.path = <<"A", "B", "B">>
    /\ ObjRawData(last.root) = MidB
    /\ ~last.res.ok
    /\ last.res.err = ErrNoLinks

----------------------------------------------------------------------------
(* The tree behind an Object: its Links replaced by what they address.     *)

\* the byte string a link addresses
BlobAt(c) == CHOOSE b \in Blobs : Addr(b) = c

\* the tree with every Link replaced by the tree of the Object it addresses
RECURSIVE Inlined(_)
Inlined(v) ==
    IF v.k = "map" THEN MapV([n \in DOMAIN v.f |-> Inlined(v.f[n])])
    ELSE IF v.k = "cid" THEN Inlined(BlobAt(v.cid).v)
    ELSE v

\* the value at path in a tree of maps, from the i-th segment on
RECURSIVE Lookup(_, _, _)
Lookup(v, path, i) ==
    IF i > Len(path) THEN v ELSE Lookup(v.f[path[i]], path, i + 1)

\* the Links met while segments remain, in the order met
RECURSIVE LinksOn(_, _, _)
LinksOn(v, path, i) ==
    IF i > Len(path) THEN <<>>
    ELSE IF v.k = "map" THEN LinksOn(v.f[path[i]], path, i + 1)
    ELSE IF v.k = "cid"
    THEN <<v.cid>> \o LinksOn(BlobAt(v.cid).v, path, i)
    ELSE <<>>

\* the value at path with only the Links met on the way replaced: a Link at
\* the end of the path stays a Link, Links below it stay {"/": address}
RECURSIVE ValueOn(_, _, _)
ValueOn(v, path, i) ==
    IF i > Len(path)
    THEN IF v.k = "cid" THEN FormatLink(v.cid) ELSE ConvertToJSONIsh(v)
    ELSE IF v.k = "map" THEN ValueOn(v.f[path[i]], path, i + 1)
    ELSE ValueOn(BlobAt(v.cid).v, path, i)

\* C11, as claimed: when the path ends at a field after crossing k Links
\* whose Objects the Store returns, Graph.Get returns the value the path has
\* in the fully inlined tree and makes exactly k Store.Get calls.
C11_AsClaimed ==
    (last.op = "GraphGet" /\ LastWalk(FALSE) = "value")
        => /\ last.res.ok
           /\ last.res.val = Lookup(Inlined(last.root.node), last.path, 1)
           /\ Len(last.reads) = Len(LinksOn(last.root.node, last.path, 1))

\* C11, amended: when the path ends at a field after crossing k Links whose
\* Objects the Store returns, and the path left at the root of an Object is
\* never the single segment "", Graph.Get returns the value the path has in
\* the tree with the k crossed Links inlined (a Link at the end of the path
\* or below it is returned as a Link, not as the Object it addresses) and
\* makes exactly k Store.Get calls, one per Link crossed, in path order.
C11_CrossLink ==
    (last.op = "GraphGet" /\ LastWalk(TRUE) = "value")
        => /\ last.res.ok
           /\ last.res.val = ValueOn(last.root.node, last.path, 1)
           /\ last.reads = LinksOn(last.root.node, last.path, 1)

\* C11 witness: two Links were crossed to a string, with exactly two reads,
\* while the root also links to an Object off the path.
C11_Witness ==
    /\ last.op = "GraphGet"
    /\ ObjRawData(last.root) = RootB
    /\ last.path = <<"A", "A", "B">>
    /\ last.res.ok
    /\ last.res.val = StrV("x")
    /\ last.reads = <<Addr(MidB), Addr(LeafB)>>

----------------------------------------------------------------------------
(* metaxml.EncodeXML, the canonicalizer: a document tree is encoded bottom *)
(* up, one Object per node, each put through Store.Put.                    *)

ErrMissingContext(name) == [kind |-> "MissingContext", name |-> name]
ErrContext(c, e) == [kind |-> "ContextUnresolved", Cid |-> c, err |-> e]

\* no attributes
NoAttrs == [a \in {} |-> ""]

\* Documents: node 1 is the root; per node its local name, its text, its
\* attributes and its child elements.
\* a leaf with an attribute
DocLeaf == [name |-> <<"c">>, text |-> <<"Song Title">>,
            attrs |-> <<"lang" :> "en">>, kids |-> <<{}>>]
\* a parent with one child leaf
DocTwo == [name |-> <<"P", "c">>, text |-> <<"", "t">>,
           attrs |-> <<NoAttrs, NoAttrs>>, kids |-> <<{2}, {}>>]
\* a parent with two subtrees that end in the same leaf
DocTwin == [name |-> <<"P", "x", "y", "c", "c">>,
            text |-> <<"", "", "", "t", "t">>,
            attrs |-> <<NoAttrs, NoAttrs, NoAttrs, NoAttrs, NoAttrs>>,
            kids |-> <<{2, 3}, {4}, {5}, {}, {}>>]
Docs == {DocLeaf, DocTwo, DocTwin}

DocNodes(doc) == DOMAIN doc.name
DocRoot == 1

\* Context documents: Objects that map local names to type identifiers
CtxA == Cbor(MapV(("P" :> StrV("tP")) @@ ("c" :> StrV("tc1"))))
CtxB == Cbor(MapV(("c" :> StrV("tc2")) @@ ("x" :> StrV("tx"))
                  @@ ("y" :> StrV("ty"))))
\* a context document the Store does not hold
CtxGone == Cbor(MapV("c" :> StrV("tc3")))
CtxBlobs == {CtxA, CtxB, CtxGone}

\* the ordered context lists handed to EncodeXML
Contexts == {<<Addr(CtxA), Addr(CtxB)>>, <<Addr(CtxB), Addr(CtxA)>>,
             <<Addr(CtxA)>>, <<Addr(CtxGone), Addr(CtxB)>>}

\* the contexts read through the Store, in the supplied order: the name
\* mappings of each, or the error of the first that does not resolve
RECURSIVE LoadContexts(_, _, _)
LoadContexts(d, ctx, i) ==
    IF i > Len(ctx) THEN RetOk(<<>>)
    ELSE LET o == StoreGet(d, ctx[i], TRUE)
         IN  IF ~o.ok THEN RetErr(ErrContext(ctx[i], o.err))
             ELSE LET more == LoadContexts(d, ctx, i + 1)
                  IN  IF ~more.ok THEN more
                      ELSE RetOk(<<[n \in DOMAIN o.val.node.f |->
                                        o.val.node.f[n].s]>> \o more.val)

\* a resolution in which the last context that maps the name wins
ResolveName_LastWins(types, name) ==
    LET I == {i \in DOMAIN types : name \in DOMAIN types[i]}
    IN  IF I = {} THEN RetErr(ErrMissingContext(name))
        ELSE RetOk(types[CHOOSE i \in I : \A j \in I : j <= i][name])

\* the type identifier of a local name: the first context that maps it wins
ResolveName(types, name) ==
    LET I == {i \in DOMAIN types : name \in DOMAIN types[i]}
    IN  IF I = {} THEN RetErr(ErrMissingContext(name))
        ELSE RetOk(types[CHOOSE i \in I : \A j \in I : i <= j][name])

\* the address standing in for a child that has delivered none
NoAddr == Addr(Junk)

\* the address a child has delivered to its parent
ChildAddr(e, c) ==
    IF c \in DOMAIN e.obj THEN ObjCid(e.obj[c]) ELSE NoAddr

\* a field tree that also carries the number of the run that built it
NodeTree_Stamped(e, n, typ) ==
    LET doc == e.doc
        kids == doc.kids[n]
    IN  IF kids = {}
        THEN MapV(("@type" :> StrV(typ)) @@ ("@value" :> StrV(doc.text[n]))
                  @@ ("seq" :> IntV(e.runs))
                  @@ [a \in DOMAIN doc.attrs[n] |-> StrV(doc.attrs[n][a])])
        ELSE MapV(("@type" :> StrV(typ)) @@ ("seq" :> IntV(e.runs))
                  @@ [f \in {doc.name[c] : c \in kids} |->
                        CidV(ChildAddr(e, CHOOSE c \in kids :
                                              doc.name[c] = f))])

\* a field tree that links every child to the first child's address
NodeTree_FirstChild(e, n, typ) ==
    LET doc == e.doc
        kids == doc.kids[n]
    IN  IF kids = {}
        THEN MapV(("@type" :> StrV(typ)) @@ ("@value" :> StrV(doc.text[n]))
                  @@ [a \in DOMAIN doc.attrs[n] |-> StrV(doc.attrs[n][a])])
        ELSE MapV(("@type" :> StrV(typ))
                  @@ [f \in {doc.name[c] : c \in kids} |->
                        CidV(ChildAddr(e, CHOOSE c \in kids :
                                              \A k \in kids : c <= k))])

\* the field tree of node n: a leaf is {"@type", "@value", attributes...},
\* a composite is {"@type", child name: Link to the child's address...}
NodeTree(e, n, typ) ==
    LET doc == e.doc
        kids == doc.kids[n]
    IN  IF kids = {}
        THEN MapV(("@type" :> StrV(typ)) @@ ("@value" :> StrV(doc.text[n]))
                  @@ [a \in DOMAIN doc.attrs[n] |-> StrV(doc.attrs[n][a])])
        ELSE MapV(("@type" :> StrV(typ))
                  @@ [f \in {doc.name[c] : c \in kids} |->
                        CidV(ChildAddr(e, CHOOSE c \in kids :
                                              doc.name[c] = f))])

\* the nodes whose Object has been put
PutNodes(e) == {e.order[i] : i \in DOMAIN e.order}

\* a parent that goes on as soon as its children have an address, put or not
Joined_Built(e, n) == e.doc.kids[n] \subseteq DOMAIN e.obj

\* a parent that does not wait for its children
Joined_NoWait(e, n) == TRUE

\* a parent that goes on when one of its children has been put
Joined_AnyChild(e, n) ==
    e.doc.kids[n] = {} \/ e.doc.kids[n] \cap PutNodes(e) # {}

\* the join: every child of n has been put and has delivered its address
Joined(e, n) == e.doc.kids[n] \subseteq PutNodes(e)

\* before the first EncodeXML: the Store holds the context documents
InitEncode ==
    /\ ds = BackingPut(BackingPut([k \in {} |-> Junk],
                                  StoreKey(Addr(CtxA)), CtxA),
                       StoreKey(Addr(CtxB)), CtxB)
    /\ putLog = {NewObject(Addr(CtxA), CtxA).val,
                 NewObject(Addr(CtxB), CtxB).val}
    /\ pending = [p \in Procs |-> <<>>]
    /\ last = [op |-> "idle"]
    /\ enc = [st |-> "idle", runs |-> 0, hist |-> {},
              obj |-> [n \in {} |-> 0], order |-> <<>>]
    /\ idx = IdxIdle

\* Server.HandleImportXML: metaxml.EncodeXML(req.Body, context, s.store.Put)
\* is called; it resolves the contexts and starts on the document
HandleImportXML(doc, ctx) ==
    /\ enc.st \in {"idle", "done", "failed"}
    /\ enc.runs < MaxEncodes
    /\ LET types == LoadContexts(ds, ctx, 1)
           run == [doc |-> doc, ctx |-> ctx, runs |-> enc.runs + 1,
                   hist |-> enc.hist, ds0 |-> ds,
                   again |-> \E h \in enc.hist :
                                 h.doc = doc /\ h.ctx = ctx,
                   obj |-> [n \in {} |-> 0], order |-> <<>>]
       IN  IF ~types.ok
           THEN enc' = run @@ [st |-> "failed", res |-> RetErr(types.err),
                               types |-> <<>>]
           ELSE enc' = run @@ [st |-> "run", res |-> RetOk("none"),
                               types |-> types.val]
    /\ UNCHANGED <<ds, putLog, pending, last, idx>>

\* the task of node n resolves the node's type, builds its field tree,
\* encodes it and derives its address
EncBuild(n) ==
    /\ enc.st = "run"
    /\ n \in DocNodes(enc.doc) \ DOMAIN enc.obj
    /\ Joined(enc, n)
    /\ LET t == ResolveName(enc.types, enc.doc.name[n])
       IN  IF ~t.ok
           THEN enc' = [enc EXCEPT !.st = "failed", !.res = RetErr(t.err)]
           ELSE LET bytes == Cbor(NodeTree(enc, n, t.val))
                    o == NewObject(Addr(bytes), bytes)
                IN  IF ~o.ok
                    THEN enc' = [enc EXCEPT !.st = "failed",
                                            !.res = RetErr(o.err)]
                    ELSE enc' = [enc EXCEPT !.obj = (n :> o.val) @@ enc.obj]
    /\ UNCHANGED <<ds, putLog, pending, last, idx>>

\* a task that goes on as if its Object were stored when the put has failed
EncPut_Swallow(n, io) ==
    /\ enc.st = "run"
    /\ n \in DOMAIN enc.obj \ PutNodes(enc)
    /\ LET o == enc.obj[n]
           a == StorePutArgs(o)
       IN  /\ ds' = IF io THEN BackingPut(ds, a.key, a.value) ELSE ds
           /\ putLog' = IF io THEN putLog \cup {o} ELSE putLog
           /\ IF n = DocRoot
              THEN enc' = [enc EXCEPT
                             !.order = Append(enc.order, n),
                             !.st = "done", !.res = RetOk(o),
                             !.hist = enc.hist \cup
                                 {[doc |-> enc.doc, ctx |-> enc.ctx,
                                   root |-> ObjCid(o)]}]
              ELSE enc' = [enc EXCEPT !.order = Append(enc.order, n)]
    /\ UNCHANGED <<pending, last, idx>>

\* the task of node n puts its Object and hands its address to the parent;
\* the root's address is the result. io: whether the backing Put succeeds
EncPut(n, io) ==
    /\ enc.st = "run"
    /\ n \in DOMAIN enc.obj \ PutNodes(enc)
    /\ LET o == enc.obj[n]
           a == StorePutArgs(o)
       IN  IF ~io
           THEN /\ enc' = [enc EXCEPT !.st = "failed", !.res = RetErr(ErrIO)]
                /\ UNCHANGED <<ds, putLog>>
           ELSE /\ ds' = BackingPut(ds, a.key, a.value)
                /\ putLog' = putLog \cup {o}
                /\ IF n = DocRoot
                   THEN enc' = [enc EXCEPT
                                  !.order = Append(enc.order, n),
                                  !.st = "done", !.res = RetOk(o),
                                  !.hist = enc.hist \cup
                                      {[doc |-> enc.doc, ctx |-> enc.ctx,
                                        root |-> ObjCid(o)]}]
                   ELSE enc' = [enc EXCEPT !.order = Append(enc.order, n)]
    /\ UNCHANGED <<pending, last, idx>>

\* calls of EncodeXML one after the other, the tasks of each interleaved
NextEncode ==
    \/ \E doc \in Docs, ctx \in Contexts : HandleImportXML(doc, ctx)
    \/ \E n \in 1..5 : EncBuild(n)
    \/ \E n \in 1..5, io \in BOOLEAN : EncPut(n, io)

SpecEncode == InitEncode /\ [][NextEncode]_vars

----------------------------------------------------------------------------
(* Properties of the canonicalizer.                                        *)

\* the addresses a value tree links to
RECURSIVE LinksIn(_)
LinksIn(v) ==
    IF v.k = "cid" THEN {v.cid}
    ELSE IF v.k = "map"
    THEN UNION {LinksIn(v.f[n]) : n \in DOMAIN v.f}
    ELSE {}

\* the addresses the bytes of a store entry link to
LinksOfBytes(b) == IF b.enc = "cbor" THEN LinksIn(b.v) ELSE {}

\* C12: in every run of EncodeXML the put of each child's Object completes
\* before the put of its parent's Object, and no entry is written while an
\* address it links to is absent from the Store.
C12_ChildrenFirst ==
    [][/\ \A n \in PutNodes(enc') \ PutNodes(enc) :
            \A c \in enc.doc.kids[n] :
                /\ c \in PutNodes(enc)
                /\ KeyString(ObjCid(enc.obj[c])) \in DOMAIN ds
       /\ \A k \in DOMAIN ds' \ DOMAIN ds :
            \A a \in LinksOfBytes(ds'[k]) : KeyString(a) \in DOMAIN ds]_vars

\* C12 witness: the root of a three-level document was put after both of
\* its subtrees, each child before its parent.
C12_Witness ==
    /\ enc.st = "done"
    /\ enc.doc = DocTwin
    /\ enc.order = <<5, 4, 2, 3, 1>>
    /\ LinksOfBytes(ObjRawData(enc.res.val)) # {}

C14_Idempotent ==
    enc.st = "done"
        => /\ \A h \in enc.hist :
                 (h.doc = enc.doc /\ h.ctx = enc.ctx)
                     => h.root = ObjCid(enc.res.val)
           /\ enc.again => ds = enc.ds0

\* C14 witness: the three-level document was encoded a second time.
C14_Witness ==
    /\ enc.st = "done"
    /\ enc.again
    /\ enc.runs = 2
    /\ enc.doc = DocTwin

\* the context document an address names
BlobAtCtx(c) == CHOOSE b \in CtxBlobs : Addr(b) = c

\* the type identifier the context documents give a name, first one first
FirstType(ctx, name) ==
    LET I == {i \in DOMAIN ctx : name \in DOMAIN BlobAtCtx(ctx[i]).v.f}
        first == CHOOSE i \in I : \A j \in I : i <= j
    IN  BlobAtCtx(ctx[first]).v.f[name].s

\* the bytes a sequential, depth-first encode gives node n
RECURSIVE SeqBytes(_, _, _)
SeqBytes(doc, ctx, n) ==
    LET kids == doc.kids[n]
        typ == "@type" :> StrV(FirstType(ctx, doc.name[n]))
    IN  IF kids = {}
        THEN Cbor(MapV(typ @@ ("@value" :> StrV(doc.text[n]))
                       @@ [a \in DOMAIN doc.attrs[n] |->
                              StrV(doc.attrs[n][a])]))
        ELSE Cbor(MapV(typ @@ [f \in {doc.name[c] : c \in kids} |->
                   CidV(Addr(SeqBytes(doc, ctx,
                          CHOOSE c \in kids : doc.name[c] = f)))]))

\* the Store a sequential encode of doc leaves behind, started on d
SeqStore(d, doc, ctx) ==
    LET new == {SeqBytes(doc, ctx, n) : n \in DocNodes(doc)}
    IN  [k \in DOMAIN d \cup {KeyString(Addr(b)) : b \in new} |->
            IF k \in DOMAIN d THEN d[k]
            ELSE CHOOSE b \in new : KeyString(Addr(b)) = k]

\* C15: a parent's field tree is built, and the parent put, only after
\* every one of its children has been put; and whatever the interleaving
\* of the sibling tasks, the root address and the Store at the end are
\* those of a sequential encode.
C15_SiblingJoin ==
    /\ enc.st \in {"run", "done"}
          => /\ \A n \in DOMAIN enc.obj : enc.doc.kids[n] \subseteq PutNodes(enc)
             /\ \A i \in DOMAIN enc.order :
                   enc.doc.kids[enc.order[i]] \subseteq
                       {enc.order[j] : j \in 1..(i - 1)}
    /\ enc.st = "done"
          => /\ ObjCid(enc.res.val) = Addr(SeqBytes(enc.doc, enc.ctx, DocRoot))
             /\ ds = SeqStore(enc.ds0, enc.doc, enc.ctx)

\* C15 witness: the two subtrees were encoded in turns, leaf, leaf, parent,
\* parent, which no sequential encode does, and the run completed.
C15_Witness ==
    /\ enc.st = "done"
    /\ enc.doc = DocTwin
    /\ enc.order = <<4, 5, 3, 2, 1>>

\* the key of the Object the run built for node n
NodeKey(n) == KeyString(ObjCid(enc.obj[n]))

\* C16: a completed encode has stored exactly one Object per distinct node
\* encoding and nothing else; in every stored composite Object the field of
\* a child is a Link to the address of that child's stored Object; and the
\* result is the address of the root node's Object.
C16_Composite ==
    enc.st = "done"
        => LET nodes == DocNodes(enc.doc)
           IN  /\ DOMAIN enc.obj = nodes
               /\ \A n \in nodes :
                     /\ NodeKey(n) \in DOMAIN ds
                     /\ ds[NodeKey(n)] = ObjRawData(enc.obj[n])
                     /\ DerivesTo(ds[NodeKey(n)], ObjCid(enc.obj[n]))
               /\ DOMAIN ds = DOMAIN enc.ds0 \cup {NodeKey(n) : n \in nodes}
               /\ Cardinality({NodeKey(n) : n \in nodes})
                     = Cardinality({enc.obj[n].node : n \in nodes})
               /\ \A n \in nodes : \A c \in enc.doc.kids[n] :
                     LET f == ds[NodeKey(n)].v.f
                     IN  /\ enc.doc.name[c] \in DOMAIN f
                         /\ f[enc.doc.name[c]] = CidV(ObjCid(enc.obj[c]))
               /\ ObjCid(enc.res.val) = ObjCid(enc.obj[DocRoot])
               /\ ObjRawData(enc.res.val) = ds[NodeKey(DocRoot)]

\* C16 witness: a parent with one child leaf was encoded into an empty
\* Store (but for the contexts) and exactly two Objects were stored.
C16_Witness ==
    /\ enc.st = "done"
    /\ enc.doc = DocTwo
    /\ enc.runs = 1
    /\ Cardinality(DOMAIN ds \ DOMAIN enc.ds0) = 2
    /\ ds[NodeKey(1)].v.f["c"] = CidV(Addr(ds[NodeKey(2)]))

\* the supplied context documents that map a name, by position
MappedBy(ctx, name) ==
    {i \in DOMAIN ctx : name \in DOMAIN BlobAtCtx(ctx[i]).v.f}

\* C17: the declared type of every Object an encode builds is what the
\* first supplied context that maps the node's name maps it to; an encode
\* that meets a name no supplied context maps does not complete, and fails
\* with the missing-context-mapping error for such a name and no address.
C17_ContextOrder ==
    /\ enc.st \in {"run", "done"}
          => \A n \in DOMAIN enc.obj :
                LET I == MappedBy(enc.ctx, enc.doc.name[n])
                IN  /\ I # {}
                    /\ \E i \in I :
                          /\ \A j \in I : i <= j
                          /\ ObjType(enc.obj[n]) =
                               BlobAtCtx(enc.ctx[i]).v.f[enc.doc.name[n]].s
    /\ enc.st = "done"
          => \A n \in DocNodes(enc.doc) :
                MappedBy(enc.ctx, enc.doc.name[n]) # {}
    /\ (enc.st = "failed" /\ enc.res.err.kind = "MissingContext")
          => /\ ~enc.res.ok
             /\ \E n \in DocNodes(enc.doc) :
                   /\ enc.doc.name[n] = enc.res.err.name
                   /\ MappedBy(enc.ctx, enc.doc.name[n]) = {}

\* C17 witness: both contexts map the leaf's name and the one supplied
\* first, which is not the one stored first, gave the type.
C17_Witness ==
    /\ enc.st = "done"
    /\ enc.ctx = <<Addr(CtxB), Addr(CtxA)>>
    /\ enc.doc = DocTwin
    /\ ObjType(enc.obj[4]) = "tc2"
    /\ ObjType(enc.obj[1]) = "tP"

\* runs of EncodeXML that resolve their contexts and whose puts succeed,
\* with direct calls of Store.Put by other callers at any point
NextEncodePut ==
    \/ \E doc \in {DocTwo, DocTwin} :
            Idle /\ HandleImportXML(doc, <<Addr(CtxB), Addr(CtxA)>>)
    \/ \E n \in 1..5 : Idle /\ EncBuild(n)
    \/ \E n \in 1..5 : Idle /\ EncPut(n, TRUE)
    \/ \E o \in Objects : StorePutOp(o, TRUE)
    \/ Return

SpecEncodePut == InitEncode /\ [][NextEncodePut]_vars

\* the entries the Links of the entry under key k lead to: those the Store
\* reads for the linked addresses
LinkedFrom(k) ==
    {StoreKey(a) : a \in LinksOfBytes(ds[k])} \cap DOMAIN ds

\* the entries reached from the set S in at most n more steps
RECURSIVE ReachedFrom(_, _)
ReachedFrom(S, n) ==
    IF n = 0 THEN S
    ELSE ReachedFrom(S \cup UNION {LinkedFrom(k) : k \in S}, n - 1)

----------------------------------------------------------------------------
(* eidr.Indexer.Index: the consumer of a stream of root addresses.         *)

\* ctx.Err() once the context is done
CtxErr == [kind |-> "ctx.Err"]

\* Objects for the indexer: metadata held inline, behind a Link, and a
\* FullMetadata that is a string
IdxInnerB == Cbor(MapV("BaseObjectData" :> CidV(Addr(LeafB))))
IdxInlineB == Cbor(MapV("FullMetadata" :>
                  MapV(("BaseObjectData" :> CidV(Addr(LeafB)))
                       @@ ("ExtraObjectMetadata" :> CidV(Addr(MidB))))))
IdxLinkedB == Cbor(MapV("FullMetadata" :> CidV(Addr(IdxInnerB))))
IdxBadB == Cbor(MapV("FullMetadata" :> StrV("x")))

\* what the Store holds while Index runs
IdxStored == {LeafB, MidB, IdxInnerB, IdxInlineB, IdxLinkedB, IdxBadB}

\* the addresses sent on the stream; that of RootB is not in the Store
IdxCids == {Addr(IdxInlineB), Addr(IdxLinkedB), Addr(IdxBadB), Addr(RootB)}

\* Indexer.index(obj) up to its first return: the two top-level Gets. What
\* Graph.Get returns is never a *cid.Cid, so the type assertion on extra
\* fails and index returns nil before it touches the database.
IndexObject(d, obj, budget) ==
    LET base == GraphGet(d, obj, <<"FullMetadata", "BaseObjectData">>,
                         budget).res
        extra == GraphGet(d, obj, <<"FullMetadata", "ExtraObjectMetadata">>,
                          budget).res
    IN  IF ~base.ok
        THEN IF IsPathNotFound(base.err) THEN RetOk("nil")
             ELSE RetErr(base.err)
        ELSE IF ~extra.ok /\ ~IsPathNotFound(extra.err)
        THEN RetErr(extra.err)
        ELSE RetOk("nil")

\* the cases of the select that can proceed
Ready(i, branch) ==
    CASE branch = "recv" -> i.buf # <<>>
      [] branch = "closed" -> i.buf = <<>> /\ i.closed
      [] branch = "done" -> i.cancelled

\* an Index that stops silently when the context is done
IndexIter_SilentStop(i, d, branch, budget) ==
    IF branch = "done" \/ branch = "closed"
    THEN [i EXCEPT !.st = "returned", !.res = RetOk("nil")]
    ELSE LET c == Head(i.buf)
             got == [i EXCEPT !.buf = Tail(i.buf)]
             obj == StoreGet(d, c, budget > 0)
         IN  IF ~obj.ok
             THEN [got EXCEPT !.st = "returned", !.res = RetErr(obj.err),
                              !.failed = <<c>>]
             ELSE LET r == IndexObject(d, obj.val,
                                       IF budget > 0 THEN budget - 1 ELSE 0)
                  IN  IF ~r.ok
                      THEN [got EXCEPT !.st = "returned",
                                       !.res = RetErr(r.err),
                                       !.failed = <<c>>]
                      ELSE [got EXCEPT !.processed = Append(i.processed, c)]

\* an Index that skips an address it cannot fetch or index
IndexIter_SkipErrors(i, d, branch, budget) ==
    IF branch = "done"
    THEN [i EXCEPT !.st = "returned", !.res = RetErr(CtxErr)]
    ELSE IF branch = "closed"
    THEN [i EXCEPT !.st = "returned", !.res = RetOk("nil")]
    ELSE LET c == Head(i.buf)
             got == [i EXCEPT !.buf = Tail(i.buf)]
             obj == StoreGet(d, c, budget > 0)
         IN  IF ~obj.ok
             THEN got
             ELSE LET r == IndexObject(d, obj.val,
                                       IF budget > 0 THEN budget - 1 ELSE 0)
                  IN  IF ~r.ok
                      THEN got
                      ELSE [got EXCEPT !.processed = Append(i.processed, c)]

\* one round of Index's loop, the select having taken the case branch:
\* "done" returns ctx.Err(), "closed" returns nil, "recv" fetches and
\* indexes the address received and returns the first error
IndexIter(i, d, branch, budget) ==
    IF branch = "done"
    THEN [i EXCEPT !.st = "returned", !.res = RetErr(CtxErr)]
    ELSE IF branch = "closed"
    THEN [i EXCEPT !.st = "returned", !.res = RetOk("nil")]
    ELSE LET c == Head(i.buf)
             got == [i EXCEPT !.buf = Tail(i.buf)]
             obj == StoreGet(d, c, budget > 0)
         IN  IF ~obj.ok
             THEN [got EXCEPT !.st = "returned", !.res = RetErr(obj.err),
                              !.failed = <<c>>]
             ELSE LET r == IndexObject(d, obj.val,
                                       IF budget > 0 THEN budget - 1 ELSE 0)
                  IN  IF ~r.ok
                      THEN [got EXCEPT !.st = "returned",
                                       !.res = RetErr(r.err),
                                       !.failed = <<c>>]
                      ELSE [got EXCEPT !.processed = Append(i.processed, c)]

\* the streams a producer may send
Streams == UNION {[1..n -> IdxCids] : n \in 0..MaxStream}

\* Index has been called on a stream whose producer is about to send
InitIndex ==
    /\ ds = [k \in {StoreKey(Addr(b)) : b \in IdxStored} |->
                CHOOSE b \in IdxStored : StoreKey(Addr(b)) = k]
    /\ putLog = {}
    /\ pending = [p \in Procs |-> <<>>]
    /\ last = [op |-> "idle"]
    /\ enc = EncIdle
    /\ \E s \in Streams :
          idx = [st |-> "run", toSend |-> s, buf |-> <<>>, sent |-> <<>>,
                 closed |-> FALSE, cancelled |-> FALSE, atCancel |-> 0,
                 processed |-> <<>>, failed |-> <<>>, res |-> RetOk("none")]

\* the producer sends its next address
StreamSend ==
    /\ ~idx.closed
    /\ idx.toSend # <<>>
    /\ Len(idx.buf) < ChanCap
    /\ idx' = [idx EXCEPT !.toSend = Tail(idx.toSend),
                          !.buf = Append(idx.buf, Head(idx.toSend)),
                          !.sent = Append(idx.sent, Head(idx.toSend))]
    /\ UNCHANGED <<ds, putLog, pending, last, enc>>

\* the producer closes the stream, after all or some of its addresses
StreamClose ==
    /\ ~idx.closed
    /\ idx' = [idx EXCEPT !.closed = TRUE]
    /\ UNCHANGED <<ds, putLog, pending, last, enc>>

\* the context is cancelled or its deadline passes
CtxCancel ==
    /\ idx.st = "run"
    /\ ~idx.cancelled
    /\ idx' = [idx EXCEPT !.cancelled = TRUE,
                          !.atCancel = Len(idx.processed)]
    /\ UNCHANGED <<ds, putLog, pending, last, enc>>

\* Indexer.Index: one round of the loop; the select takes any case that
\* can proceed. budget: the backing reads that succeed in this round
Index(branch, budget) ==
    /\ idx.st = "run"
    /\ Ready(idx, branch)
    /\ idx' = IndexIter(idx, ds, branch, budget)
    /\ UNCHANGED <<ds, putLog, pending, last, enc>>

NextIndex ==
    \/ StreamSend
    \/ StreamClose
    \/ CtxCancel
    \/ \E branch \in {"recv", "closed", "done"}, budget \in 0..2 :
            Index(branch, budget)

SpecIndex == InitIndex /\ [][NextIndex]_vars

----------------------------------------------------------------------------
(* Properties of Indexer.Index.                                            *)

\* s is an initial part of t
IsPrefix(s, t) == Len(s) <= Len(t) /\ SubSeq(t, 1, Len(s)) = s

\* C19, as claimed: once the context is done Index processes no further
\* address and returns ctx.Err(), never success and no other error, whether
\* or not the stream has an address ready or is closed.
C19_AsClaimed ==
    idx.cancelled
        => /\ Len(idx.processed) = idx.atCancel
           /\ idx.st = "returned" => idx.res = RetErr(CtxErr)

\* a round of Index's loop has run
IndexRan == idx'.st # idx.st \/ idx'.processed # idx.processed

\* C19, amended: Index checks the signal at each receive. A round that
\* starts with the context done, no address ready and the stream open
\* returns ctx.Err() and processes nothing; Index returns ctx.Err() only
\* when the context is done; and after it has returned it processes
\* nothing more. With the context done and an address ready or the stream
\* closed, the select may take either case.
C19_Cancellation ==
    [][/\ (/\ idx.st = "run"
           /\ idx.cancelled
           /\ idx.buf = <<>>
           /\ ~idx.closed
           /\ IndexRan)
             => /\ idx'.st = "returned"
                /\ idx'.res = RetErr(CtxErr)
                /\ idx'.processed = idx.processed
       /\ (idx'.st = "returned" /\ idx'.res = RetErr(CtxErr))
             => idx.cancelled
       /\ idx.st = "returned"
             => /\ idx'.st = "returned"
                /\ idx'.res = idx.res
                /\ idx'.processed = idx.processed]_vars

\* C19 witness: Index returned ctx.Err() after it had processed an address
\* and while the next one was ready on the stream.
C19_Witness ==
    /\ idx.st = "returned"
    /\ idx.res = RetErr(CtxErr)
    /\ idx.cancelled
    /\ Len(idx.processed) = 1
    /\ idx.buf # <<>>

\* the errors fetching and indexing address c can end in
ErrorsOf(c) ==
    LET got == StoreGet(ds, c, TRUE)
    IN  {r \in {got, StoreGet(ds, c, FALSE)} : ~r.ok}
           \cup IF got.ok
                THEN {r \in {IndexObject(ds, got.val, b) : b \in 0..1} :
                         ~r.ok}
                ELSE {}

----------------------------------------------------------------------------
(* Object construction: the declared type.                                 *)

\* the decoded tree has a top-level field named "@type"
HasTypeField(tree) == tree.k = "map" /\ "@type" \in DOMAIN tree.f

\* the last NewObject was given a Block that NewBlock accepts, of the codec
\* DAG-CBOR, whose bytes decode
LastDecoded ==
    /\ last.op = "NewObject"
    /\ NewBlock(last.cid, last.data).ok
    /\ last.cid.codec = DagCBOR
    /\ last.data.enc = "cbor"

\* C21, as claimed: NewObject fails with ErrInvalidType exactly when the
\* decoded tree has a top-level "@type" field whose value is not a string;
\* with a string "@type" Type() returns it, and with no "@type" field
\* construction succeeds and Type() returns the empty string.
C21_AsClaimed ==
    LastDecoded
        => LET tree == last.data.v
           IN  /\ (~last.res.ok /\ last.res.err.kind = "ErrInvalidType")
                     <=> (HasTypeField(tree) /\ tree.f["@type"].k # "str")
               /\ (HasTypeField(tree) /\ tree.f["@type"].k = "str")
                     => /\ last.res.ok
                        /\ ObjType(last.res.val) = tree.f["@type"].s
               /\ ~HasTypeField(tree)
                     => /\ last.res.ok
                        /\ ObjType(last.res.val) = ""

\* C21 witness: a Block whose decoded tree is a bare link, with no "@type"
\* field at all, was refused with ErrInvalidType naming the link.
C21_Witness ==
    /\ last.op = "NewObject"
    /\ last.data = TopLinkB
    /\ last.cid = Addr(TopLinkB)
    /\ ~HasTypeField(last.data.v)
    /\ ~last.res.ok
    /\ last.res.err = ErrInvalidType(FormatLink(Addr(LeafB)))

----------------------------------------------------------------------------
(* Object construction: which error is reported.                           *)

\* the type check refuses the tree: a non-string "@type", or a bare link
TypeInvalid(tree) ==
    \/ HasTypeField(tree) /\ tree.f["@type"].k # "str"
    \/ tree.k = "cid"

\* the first of the claimed checks that refuses address c with bytes data
FirstOfFive(c, data) ==
    IF c.version # 1 THEN "ErrInvalidCidVersion"
    ELSE IF ~DerivesTo(data, c) THEN "ErrCidMismatch"
    ELSE IF c.codec # DagCBOR THEN "ErrInvalidCodec"
    ELSE IF data.enc # "cbor" THEN "cbor.DecodeError"
    ELSE IF TypeInvalid(data.v) THEN "ErrInvalidType"
    ELSE "none"

\* the same with the check the multihash library makes before the
\* addresses are compared
FirstOfSix(c, data) ==
    IF c.version # 1 THEN "ErrInvalidCidVersion"
    ELSE IF c.hash.fn \notin SumSupported THEN "mh.ErrSumNotSupported"
    ELSE IF ~DigestOf(data, c) THEN "ErrCidMismatch"
    ELSE IF c.codec # DagCBOR THEN "ErrInvalidCodec"
    ELSE IF data.enc # "cbor" THEN "cbor.DecodeError"
    ELSE IF TypeInvalid(data.v) THEN "ErrInvalidType"
    ELSE "none"

----------------------------------------------------------------------------
(* Store.Get and Store.Put with the calls they make to the backing         *)
(* collaborator. ios are the collaborator's answers to successive calls:   *)
(* TRUE when it serves the call, FALSE when it fails it.                   *)

\* most calls whose answer the collaborator has ready
MaxCalls == 2

\* the answers a collaborator gives to the next calls
Answers == [1..MaxCalls -> BOOLEAN]

\* a Get that asks the collaborator again after a failed call
StoreGetCalls_Retry(d, c, ios) ==
    LET data == BackingGet(d, StoreKey(c), ios[1])
        again == BackingGet(d, StoreKey(c), ios[2])
    IN  IF data.ok
        THEN [res |-> NewObject(c, data.val),
              calls |-> <<[op |-> "Get", key |-> StoreKey(c), ans |-> data]>>]
        ELSE [res |-> IF ~again.ok THEN RetErr(again.err)
                      ELSE NewObject(c, again.val),
              calls |-> <<[op |-> "Get", key |-> StoreKey(c), ans |-> data],
                          [op |-> "Get", key |-> StoreKey(c), ans |-> again]>>]

\* Store.Get: one backing Get, whose error is returned as it is
StoreGetCalls(d, c, ios) ==
    LET data == BackingGet(d, StoreKey(c), ios[1])
    IN  [res |-> IF ~data.ok THEN RetErr(data.err)
                 ELSE NewObject(c, data.val),
         calls |-> <<[op |-> "Get", key |-> StoreKey(c), ans |-> data]>>]

\* Store.Put: one backing Put of the Object's key and raw bytes, whose
\* error is returned as it is
StorePutCalls(d, obj, ios) ==
    LET a == StorePutArgs(obj)
        ans == IF ios[1] THEN RetOk("nil") ELSE RetErr(ErrIO)
    IN  [res |-> ans,
         store |-> IF ios[1] THEN BackingPut(d, a.key, a.value) ELSE d,
         calls |-> <<[op |-> "Put", key |-> a.key, ans |-> ans]>>]

\* Store.Get(c) over a collaborator answering with ios
StoreGetTraced(c, ios) ==
    /\ Idle
    /\ LET t == StoreGetCalls(ds, c, ios)
       IN  last' = [op |-> "GetCalls", cid |-> c, ios |-> ios,
                    before |-> ds, res |-> t.res, calls |-> t.calls]
    /\ UNCHANGED <<ds, putLog, pending, enc, idx>>

\* Store.Put(obj) over a collaborator answering with ios
StorePutTraced(obj, ios) ==
    /\ Idle
    /\ LET t == StorePutCalls(ds, obj, ios)
       IN  /\ ds' = t.store
           /\ putLog' = IF t.res.ok THEN putLog \cup {obj} ELSE putLog
           /\ last' = [op |-> "PutCalls", obj |-> obj, ios |-> ios,
                       before |-> ds, res |-> t.res, calls |-> t.calls]
    /\ UNCHANGED <<pending, enc, idx>>

\* the Store over a collaborator that may fail any call
NextBacking ==
    \/ \E c \in Cids, ios \in Answers : StoreGetTraced(c, ios)
    \/ \E o \in Objects, ios \in Answers : StorePutTraced(o, ios)
    \/ Return

SpecBacking == Init /\ [][NextBacking]_vars

\* C23: Store.Get and Store.Put call the backing collaborator exactly once;
\* when that call fails they return exactly its error and no Object and
\* the store is as it was before; Store.Put fails with nothing but the
\* backing Put's error, so never with ErrCidMismatch, and succeeds whenever
\* the backing Put does.
C23_BackingErrors ==
    last.op \in {"GetCalls", "PutCalls"}
        => /\ Len(last.calls) = 1
           /\ ~last.calls[1].ans.ok
                 => /\ last.res = RetErr(last.calls[1].ans.err)
                    /\ ds = last.before
           /\ last.op = "GetCalls"
                 => /\ last.calls[1].op = "Get"
                    /\ ds = last.before
           /\ last.op = "PutCalls"
                 => /\ last.calls[1].op = "Put"
                    /\ last.res = last.calls[1].ans
                    /\ ~last.res.ok
                          => last.res.err.kind # "ErrCidMismatch"

\* C23 witness: a Get of a stored address failed with the collaborator's
\* I/O error although a second call would have been served, and the store
\* still holds the entry.
C23_Witness ==
    /\ last.op = "GetCalls"
    /\ StoreKey(last.cid) \in DOMAIN ds
    /\ ~last.ios[1]
    /\ last.ios[2]
    /\ last.res = RetErr(ErrIO)
    /\ Len(last.calls) = 1
    /\ ds = last.before

----------------------------------------------------------------------------
(* Failure of an encode.                                                   *)

\* the nodes above n in the document
RECURSIVE Ancestors(_, _)
Ancestors(doc, n) ==
    LET up == {p \in DocNodes(doc) : n \in doc.kids[p]}
    IN  up \cup UNION {Ancestors(doc, p) : p \in up}

\* what holds of a run e and the store d it works on
AbortedOrWhole(e, d) ==
    /\ e.st = "failed"
          => /\ ~e.res.ok
             /\ DocRoot \notin PutNodes(e)
             /\ e.res.err.kind \in {"ContextUnresolved", "MissingContext",
                                    ErrIO.kind}
             /\ e.res.err.kind = "ContextUnresolved"
                   => /\ \E i \in DOMAIN e.ctx :
                            /\ ~StoreGet(e.ds0, e.ctx[i], TRUE).ok
                            /\ e.res.err.Cid = e.ctx[i]
                      /\ PutNodes(e) = {}
                      /\ d = e.ds0
             /\ e.res.err.kind = "MissingContext"
                   => /\ MappedBy(e.ctx, e.res.err.name) = {}
                      /\ \E n \in DocNodes(e.doc) \ DOMAIN e.obj :
                            e.doc.name[n] = e.res.err.name
             /\ e.res.err = ErrIO
                   => DOMAIN e.obj \ PutNodes(e) # {}
    /\ e.st = "done"
          => /\ e.res.ok
             /\ \A i \in DOMAIN e.ctx : StoreGet(e.ds0, e.ctx[i], TRUE).ok
             /\ \A n \in DocNodes(e.doc) :
                   MappedBy(e.ctx, e.doc.name[n]) # {}
             /\ PutNodes(e) = DocNodes(e.doc)
    /\ e.st \in {"run", "done", "failed"}
          => /\ \A n \in PutNodes(e) :
                   KeyString(ObjCid(e.obj[n])) \in DOMAIN d
             /\ \A n \in DocNodes(e.doc) \ PutNodes(e) :
                   Ancestors(e.doc, n) \cap PutNodes(e) = {}

\* C24: an encode in which a put fails, a context address does not resolve
\* through the Store or a name has no context mapping ends with that error
\* and no root address; a run counts a node as put only when its Object is
\* in the Store, and at no time, so neither after the failure, is an
\* ancestor of a node that is not put itself put; a run that returns a root
\* address has met none of the three failures.
C24_EncodeAborts == AbortedOrWhole(enc, ds)

\* C24 witness: the leaves of a three-level document were put, then a name
\* with no context mapping was met; the run ended with that error, the
\* parents and the root were never put.
C24_Witness ==
    /\ enc.st = "failed"
    /\ enc.doc = DocTwin
    /\ enc.res = RetErr(ErrMissingContext("x"))
    /\ PutNodes(enc) = {4, 5}
    /\ DOMAIN ds # DOMAIN enc.ds0

----------------------------------------------------------------------------
(* Graph.Get: the sentinel, a Link at the end of the path, termination.    *)

\* C25: Graph.Get with the single-segment path [""] returns the root Object
\* the Graph was made with, reads nothing from the Store and does not fail,
\* for every root (also one that has a field named "") and every state of
\* the Store.
C25_Sentinel ==
    (last.op = "GraphGet" /\ last.path = <<"">>)
        => /\ last.res.ok
           /\ last.res.val = [k |-> "object", obj |-> last.root]
           /\ last.reads = <<>>

\* C25 witness: [""] was asked of a root that has a field named "", over an
\* empty Store with a failing collaborator, and gave the root Object.
C25_Witness ==
    /\ last.op = "GraphGet"
    /\ last.path = <<"">>
    /\ ObjRawData(last.root) = LeafB
    /\ "" \in DOMAIN last.root.node.f
    /\ last.budget = 0
    /\ DOMAIN ds = {}
    /\ last.res = RetOk([k |-> "object", obj |-> last.root])

\* the path of the last Graph.Get is used up exactly at a Link
EndsAtLink ==
    /\ last.op = "GraphGet"
    /\ LastWalk(TRUE) = "value"
    /\ ValueOn(last.root.node, last.path, 1).k = "format.Link"

\* C26: when the path is used up exactly at a field whose value is a Link,
\* Graph.Get returns that Link and does not fetch the Object it addresses:
\* it reads only the Objects behind the Links crossed before, and succeeds
\* whether or not the Store holds the address the Link names.
C26_TerminalLink ==
    EndsAtLink
        => /\ last.res = RetOk(ValueOn(last.root.node, last.path, 1))
           /\ last.reads = LinksOn(last.root.node, last.path, 1)
           /\ \A i \in DOMAIN last.reads : last.reads[i] # last.res.val.Cid

\* C26 witness: the path ended at a Link whose address the Store does not
\* hold, after another Link was crossed; the Link came back, one read made.
C26_Witness ==
    /\ last.op = "GraphGet"
    /\ ObjRawData(last.root) = RootB
    /\ last.path = <<"A", "A">>
    /\ KeyString(Addr(LeafB)) \notin DOMAIN ds
    /\ last.res = RetOk(FormatLink(Addr(LeafB)))
    /\ last.reads = <<Addr(MidB)>>

\* C27: every Graph.Get ends in a value or an error; every Object it
\* fetches is fetched for a Link crossed with segments left over, each hop
\* going on with fewer segments than before, so a call on a path of n
\* segments fetches at most n Objects (fewer than n when n > 0), whatever
\* the Store holds.
C27_Terminates ==
    last.op = "GraphGet"
        => /\ last.res.ok \in BOOLEAN
           /\ Len(last.reads) <= Len(last.path)
           /\ Len(last.path) > 0 => Len(last.reads) < Len(last.path)

\* C27 witness: a path of three segments crossed two Links and ended in an
\* error at the third segment, over a Store with a corrupted entry.
C27_Witness ==
    /\ last.op = "GraphGet"
    /\ last.path = <<"A", "A", "A">>
    /\ Len(last.reads) = 2
    /\ ~last.res.ok
    /\ Corrupted(ds) # {}

----------------------------------------------------------------------------
(* eidr.Indexer.index with the rows it inserts into the index database.    *)

\* an Object whose FullMetadata holds the base object and no extra metadata
IdxBaseOnlyB == Cbor(MapV("FullMetadata" :>
                    MapV("BaseObjectData" :> CidV(Addr(LeafB)))))

\* the Objects the indexer is run on and the Objects they link to
IdxObjects ==
    {NewObject(Addr(b), b).val : b \in IdxStored \cup {IdxBaseOnlyB}}

\* the dynamic type of what Graph.Get returned, nil on ErrPathNotFound
DynType(r) == IF r.ok THEN r.val.k ELSE "nil"

\* Indexer.index(obj): the result and the tables rows were inserted into.
\* The base object's row is inserted only after both type assertions to
\* *cid.Cid have succeeded and both Objects have been fetched.
IndexDB(d, obj, budget) ==
    LET base == GraphGet(d, obj, <<"FullMetadata", "BaseObjectData">>,
                         budget).res
        extra == GraphGet(d, obj, <<"FullMetadata", "ExtraObjectMetadata">>,
                          budget).res
    IN  IF ~base.ok
        THEN [res |-> IF IsPathNotFound(base.err) THEN RetOk("nil")
                      ELSE RetErr(base.err),
              rows |-> {}]
        ELSE IF ~extra.ok /\ ~IsPathNotFound(extra.err)
        THEN [res |-> RetErr(extra.err), rows |-> {}]
        ELSE IF DynType(extra) # "cid.Cid"
        THEN [res |-> RetOk("nil"), rows |-> {}]
        ELSE LET extraobj == StoreGet(d, extra.val.cid, budget > 0)
             IN  IF ~extraobj.ok
                 THEN [res |-> RetErr(extraobj.err), rows |-> {}]
                 ELSE IF DynType(base) # "cid.Cid"
                 THEN [res |-> RetOk("nil"), rows |-> {}]
                 ELSE LET baseobj == StoreGet(d, base.val.cid, budget > 0)
                      IN  IF ~baseobj.ok
                          THEN [res |-> RetErr(baseobj.err), rows |-> {}]
                          ELSE [res |-> RetOk("nil"),
                                rows |-> {"baseobject", "extra"}]

\* Indexer.index(obj) on the Store as it is
IndexOp(obj, budget) ==
    /\ Idle
    /\ LET r == IndexDB(ds, obj, budget)
       IN  last' = [op |-> "index", obj |-> obj, budget |-> budget,
                    res |-> r.res, rows |-> r.rows]
    /\ UNCHANGED <<ds, putLog, pending, enc, idx>>

\* the indexer run on single Objects while the Store fills
NextIndexDB ==
    \/ \E o \in IdxObjects : StorePutOp(o, TRUE)
    \/ \E o \in IdxObjects, budget \in 0..2 : IndexOp(o, budget)
    \/ Return

SpecIndexDB == Init /\ [][NextIndexDB]_vars

\* the last index call found the base object and no extra metadata
BaseWithoutExtra ==
    /\ last.op = "index"
    /\ GraphGet(ds, last.obj, <<"FullMetadata", "BaseObjectData">>,
                last.budget).res.ok
    /\ LET extra == GraphGet(ds, last.obj,
                             <<"FullMetadata", "ExtraObjectMetadata">>,
                             last.budget).res
       IN  ~extra.ok /\ IsPathNotFound(extra.err)

\* C28: for an Object whose FullMetadata/BaseObjectData resolves and whose
\* FullMetadata/ExtraObjectMetadata is absent (PathNotFound), index inserts
\* the baseobject row and no extra-metadata row: the base object is not
\* skipped.
C28_AsClaimed ==
    BaseWithoutExtra => last.rows = {"baseobject"}

\* C28 witness: index was run on an Object that has the base object and no
\* extra metadata; it returned nil and inserted no row at all.
C28_Witness ==
    /\ BaseWithoutExtra
    /\ ObjRawData(last.obj) = IdxBaseOnlyB
    /\ last.res = RetOk("nil")
    /\ last.rows = {}

----------------------------------------------------------------------------
(* api.pickBestValue: the value shown for a field with several sources.    *)

\* most sources of one field
MaxSources == 2

\* strconv.Atoi's error on a string that is not a decimal number
ErrSyntax == [kind |-> "strconv.ErrSyntax"]

\* the decimal digits and their values
Digits == <<"0", "1", "2", "3", "4", "5", "6", "7", "8", "9">>
DigitVal(c) == (CHOOSE i \in DOMAIN Digits : Digits[i] = c) - 1
IsDigit(c) == \E i \in DOMAIN Digits : Digits[i] = c

\* the number a sequence of digits writes, acc being that of the digits read
RECURSIVE ParseDigits(_, _, _)
ParseDigits(s, i, acc) ==
    IF i > Len(s) THEN acc
    ELSE ParseDigits(s, i + 1, acc * 10 + DigitVal(s[i]))

\* strconv.Atoi on a string given as its characters: an optional sign and
\* at least one digit, nothing else
Atoi(s) ==
    LET signed == Len(s) > 0 /\ s[1] \in {"-", "+"}
        body == IF signed THEN Tail(s) ELSE s
    IN  IF Len(body) = 0 \/ \E i \in DOMAIN body : ~IsDigit(body[i])
        THEN RetErr(ErrSyntax)
        ELSE IF signed /\ s[1] = "-"
        THEN RetOk(0 - ParseDigits(body, 1, 0))
        ELSE RetOk(ParseDigits(body, 1, 0))

\* the score strings of the sources
ScoreStrings == {<<"5">>, <<"3">>, <<"0">>, <<"-", "1">>, <<"1", "2">>,
                 <<"x">>, <<>>}

\* StringSource: a value and the score of the source it comes from
StringSources == [value : {"a", "b"}, score : ScoreStrings]

SourceLists == UNION {[1..n -> StringSources] : n \in 0..MaxSources}

\* pickBestValue from the i-th source on: maxScore is compared with and
\* never assigned, maxScoreValue is the value of the last source that beat it
RECURSIVE PickFrom(_, _, _, _)
PickFrom(stringSources, i, maxScore, maxScoreValue) ==
    IF i > Len(stringSources) THEN RetOk(maxScoreValue)
    ELSE LET score == Atoi(stringSources[i].score)
         IN  IF ~score.ok THEN RetErr(score.err)
             ELSE PickFrom(stringSources, i + 1, maxScore,
                           IF score.val > maxScore
                           THEN stringSources[i].value
                           ELSE maxScoreValue)

pickBestValue(stringSources) == PickFrom(stringSources, 1, 0, "")

\* Resolver.MusicRecording picks the value of a field
PickOp(stringSources) ==
    /\ Idle
    /\ last' = [op |-> "pick", sources |-> stringSources,
                res |-> pickBestValue(stringSources)]
    /\ UNCHANGED <<ds, putLog, pending, enc, idx>>

NextPick ==
    \/ \E s \in SourceLists : PickOp(s)
    \/ Return

SpecPick == Init /\ [][NextPick]_vars

\* the last pick was given at least one source and only parseable scores
Parseable ==
    /\ last.op = "pick"
    /\ Len(last.sources) > 0
    /\ \A i \in DOMAIN last.sources : Atoi(last.sources[i].score).ok

\* C29: for every non-empty list of sources with parseable scores,
\* pickBestValue returns the value of a source whose score is maximal among
\* the sources given.
C29_AsClaimed ==
    Parseable
        => /\ last.res.ok
           /\ \E i \in DOMAIN last.sources :
                 /\ last.res.val = last.sources[i].value
                 /\ \A j \in DOMAIN last.sources :
                       Atoi(last.sources[j].score).val
                          <= Atoi(last.sources[i].score).val

\* C29 witness: of two sources scored 12 and 3 the value of the second,
\* lower one was returned.
C29_Witness ==
    /\ Parseable
    /\ last.sources = <<[value |-> "a", score |-> <<"1", "2">>],
                        [value |-> "b", score |-> <<"3">>]>>
    /\ last.res = RetOk("b")

----------------------------------------------------------------------------
(* API.HandleConnect: a converter goroutine feeds an unbuffered stream of  *)
(* addresses to the indexer, and the handler answers when the indexer      *)
(* returns.                                                                *)

\* a goroutine that closes the stream only when the conversion succeeded
GoConvert_CloseOnSuccess(i, err) ==
    [i EXCEPT !.conv = "exited", !.convErr = err, !.closed = ~err]

\* the goroutine of HandleConnect when ConvertArtists returns (err: with an
\* error, which is logged): the deferred close(stream) runs on every path
GoConvert(i, err) ==
    [i EXCEPT !.conv = "exited", !.convErr = err, !.closed = TRUE]

\* the handler has made the stream, started the converter and called the
\* indexer
InitConnect ==
    /\ ds = [k \in {StoreKey(Addr(b)) : b \in IdxStored} |->
                CHOOSE b \in IdxStored : StoreKey(Addr(b)) = k]
    /\ putLog = {}
    /\ pending = [p \in Procs |-> <<>>]
    /\ last = [op |-> "idle"]
    /\ enc = EncIdle
    /\ \E s \in Streams :
          idx = [st |-> "run", toSend |-> s, buf |-> <<>>, sent |-> <<>>,
                 closed |-> FALSE, cancelled |-> FALSE, atCancel |-> 0,
                 processed |-> <<>>, failed |-> <<>>, res |-> RetOk("none"),
                 conv |-> "run", convErr |-> FALSE, status |-> 0]

\* the converter offers its next address on the stream and blocks until
\* the indexer has received it
ConvSend ==
    /\ idx.conv = "run"
    /\ idx.buf = <<>>
    /\ idx.toSend # <<>>
    /\ idx' = [idx EXCEPT !.toSend = Tail(idx.toSend),
                          !.buf = <<Head(idx.toSend)>>,
                          !.sent = Append(idx.sent, Head(idx.toSend))]
    /\ UNCHANGED <<ds, putLog, pending, last, enc>>

\* ConvertArtists returns: with nil after its last address was received,
\* or with an error at any point between two sends
ConvReturn(err) ==
    /\ idx.conv = "run"
    /\ idx.buf = <<>>
    /\ err \/ idx.toSend = <<>>
    /\ idx' = GoConvert(idx, err)
    /\ UNCHANGED <<ds, putLog, pending, last, enc>>

\* ConvertArtists gives up a send nobody receives once the request context
\* is done, and returns the context's error
ConvAbandon ==
    /\ idx.conv = "run"
    /\ idx.buf # <<>>
    /\ idx.cancelled
    /\ idx' = GoConvert([idx EXCEPT !.buf = <<>>,
                                    !.sent = SubSeq(idx.sent, 1,
                                                    Len(idx.sent) - 1)],
                        TRUE)
    /\ UNCHANGED <<ds, putLog, pending, last, enc>>

\* the handler writes its response once the indexer has returned: the
\* error as status 500, or status 200
Respond ==
    /\ idx.st = "returned"
    /\ idx' = [idx EXCEPT !.st = "responded",
                          !.status = IF idx.res.ok THEN 200 ELSE 500]
    /\ UNCHANGED <<ds, putLog, pending, last, enc>>

\* the steps of the converter goroutine
ConvStep == ConvSend \/ \E err \in BOOLEAN : ConvReturn(err)

\* the rounds of the indexer's loop
IndexStep ==
    \E branch \in {"recv", "closed", "done"}, budget \in 0..2 :
        Index(branch, budget)

NextConnect ==
    \/ ConvSend
    \/ \E err \in BOOLEAN : ConvReturn(err)
    \/ ConvAbandon
    \/ CtxCancel
    \/ \E branch \in {"recv", "closed", "done"}, budget \in 0..2 :
            Index(branch, budget)
    \/ Respond

\* both goroutines are scheduled as long as they can take a step; whether
\* the request is cancelled is left open
LiveConnect ==
    /\ InitConnect
    /\ [][NextConnect]_vars
    /\ WF_vars(ConvStep)
    /\ WF_vars(IndexStep)
    /\ WF_vars(Respond)

====
